---- MODULE Spec2Model ----
(***************************************************************************)
(* Model of the tide-times backend: the harmonic tide calculator            *)
(* (services/tide_calculator.py), the cache builder                         *)
(* (services/cache_builder.py), the SQLite connection helper (database.py)  *)
(* and the ADMIRALTY overlay (services/tide_scraper.py).                    *)
(*                                                                          *)
(* Units.  Instants are whole minutes since the calculator's epoch          *)
(* (2026-01-01T00:00), so a calendar day is the integer  t \div DayMin.     *)
(* Heights are whole millimetres; a stored height_metres (rounded to two    *)
(* decimals by the code) is a whole number of centimetres.                  *)
(***************************************************************************)
EXTENDS Integers, Sequences, FiniteSets, TLC

VARIABLES
    data,        \* TideCalculator._data: location id -> harmonic record
    op,          \* calculator run: the last engine operation applied
    arg_loc,     \* calculator run: its location argument
    arg_t,       \* calculator run: its day (find_extremes, hourly_heights) or instant (height_at)
    ret,         \* calculator run: what the operation returned
    grid,        \* calculator run: the lists times and heights of find_extremes

    html,        \* parser run: the fetched page handed to _parse_forecasts
    parsed,      \* parser run: what _parse_forecasts returned

    today,       \* date.today() of the build
    committed,   \* the SQLite file: what every other connection reads
    conn,        \* the open connection of get_db(): [open, view]
    pc,          \* position of build_cache / scrape_and_overlay
    current,     \* build_cache: the day being computed
    loc_idx,     \* build_cache: index into LOCATIONS of the next location
    prev_gen,    \* the store as committed before this build_cache run
    pre,         \* the store as committed when scrape_and_overlay started
    ov_idx,      \* scrape_and_overlay: index into SCRAPE_SLUGS of the next item
    slug_cache,  \* scrape_and_overlay: slug -> parsed forecasts
    ov_status,   \* scrape_and_overlay: per location, how its iteration ended
    store_faults,\* scrape_and_overlay: how many of its store operations raised
    net_log      \* scrape_and_overlay: the sleeps and fetches, in order

calc_vars == <<data, op, arg_loc, arg_t, ret, grid>>
parse_vars == <<html, parsed>>
build_vars == <<today, committed, conn, pc, current, loc_idx, prev_gen>>
ov_vars == <<pre, ov_idx, slug_cache, ov_status, store_faults, net_log>>
vars == <<data, op, arg_loc, arg_t, ret, grid, html, parsed, today, committed, conn, pc,
          current, loc_idx, prev_gen, pre, ov_idx, slug_cache, ov_status, store_faults, net_log>>

----------------------------------------------------------------------------
(* Bounds of the model *)

\* days 0..MaxDay are the days a calculator run asks for
MaxDay == 2
\* date.today() of a build is one of the days 0..MaxToday
MaxToday == 0
\* the horizon of build_cache (365 in config.py), shortened
PRECALC_DAYS == 1
\* a parser run is handed at most this many forecast entries
MaxForecasts == 2
\* at most this many store operations of an overlay pass raise sqlite3.Error
MaxStoreFaults == 1

----------------------------------------------------------------------------
(* Time and arithmetic helpers *)

DayMin == 24 * 60

Abs(x) == IF x < 0 THEN -x ELSE x

\* n / d rounded to the nearest integer, ties to the even one (d > 0):
\* the rounding of timedelta(seconds=float) and of round(x, 2)
RoundDiv(n, d) ==
    LET q == n \div d
        r == n % d
    IN  IF 2 * r < d THEN q
        ELSE IF 2 * r > d THEN q + 1
        ELSE IF q % 2 = 0 THEN q ELSE q + 1

----------------------------------------------------------------------------
(* services/tide_calculator.py *)

\* The period, in minutes, of a named constituent (uptide's table of speeds),
\* to the nearest multiple of four minutes.
Period(name) ==
    CASE name = "M2" -> 744
      [] name = "N2" -> 760
      [] name = "S2" -> 720
      [] name = "K1" -> 1436

\* One constituent's contribution at t: amplitude * cos(speed * t - phase),
\* with the cosine replaced by the parabolic arcs through its zeros and
\* extremes and the result floored to a millimetre.  lag is the phase
\* expressed in minutes (phase / speed).
Wave(name, amplitude, lag, t) ==
    LET P == Period(name)
        q == P \div 4
        y == (t - lag + q) % P
        u == IF y < 2 * q THEN y - q ELSE y - 3 * q
        arc == (amplitude * (q * q - u * u)) \div (q * q)
    IN  IF y < 2 * q THEN arc ELSE -arc

RECURSIVE SumWaves(_, _, _)
SumWaves(cs, i, t) ==
    IF i > Len(cs) THEN 0
    ELSE Wave(cs[i].name, cs[i].amplitude, cs[i].phase, t) + SumWaves(cs, i + 1, t)

\* tide.from_amplitude_phase(amplitudes, phases, t_sec)
FromAmplitudePhase(cs, t) == SumWaves(cs, 1, t)

\* self._offsets.get(location), tested for truth
HasOffsets(d, location) ==
    location \in DOMAIN d /\ d[location].offsets.present

\* (mutant of BaseLoc) every location synthesized from its own constituents
BaseLocOwn(d, location) == location

\* base_loc = "newquay" if offsets else location
BaseLoc(d, location) == IF HasOffsets(d, location) THEN "newquay" ELSE location

\* self._mean_levels[base_loc] + self._tides[base_loc].from_amplitude_phase(...)
Synth(d, base_loc, t) ==
    d[base_loc].mean_level + FromAmplitudePhase(d[base_loc].constituents, t)

\* the average of the two height offsets, as the code halves and adds them
HeightAtOffset(offsets) == offsets.height_hw_m \div 2 + offsets.height_lw_m \div 2

\* TideCalculator.height_at: [err, val]
height_at(d, location, t) ==
    LET base_loc == BaseLoc(d, location)
    IN  IF base_loc \notin DOMAIN d
        THEN [err |-> "KeyError", val |-> 0]
        ELSE [err |-> "none",
              val |-> Synth(d, base_loc, t)
                      + (IF HasOffsets(d, location)
                         THEN HeightAtOffset(d[location].offsets) ELSE 0)]

\* range(25)
HourlySamples == 25

\* TideCalculator.hourly_heights: [err, val], val a sequence of <<dt, h>>
hourly_heights(d, location, day) ==
    LET start == day * DayMin
    IN  IF height_at(d, location, start).err # "none"
        THEN [err |-> "KeyError", val |-> <<>>]
        ELSE [err |-> "none",
              val |-> [k \in 1..HourlySamples |->
                         <<start + (k - 1) * 60,
                           height_at(d, location, start + (k - 1) * 60).val>>]]

\* find_extremes scans from one hour before the day, for 26 hours, every 6 minutes
BufferMin == 60
ScanMin == 26 * 60
StepMin == 6

GridStart(day) == day * DayMin - BufferMin
\* (mutant of GridEnd) the end counted from the start of the day
GridEndFromDay(day) == day * DayMin + ScanMin
\* end = start + timedelta(hours=26)
GridEnd(day) == GridStart(day) + ScanMin
\* the number of samples of "while t <= end"
GridLen(day) == (GridEnd(day) - GridStart(day)) \div StepMin + 1
\* times[i], the lists indexed from 0 as in the code
GridTime(day, i) == GridStart(day) + i * StepMin

\* abs(a) < 1e-10 with a in m/s^2: in mm/min^2 the threshold is 36/100000
NegligibleNum == 36
NegligibleDen == 100000

\* (mutant of refine_extreme) the height re-evaluated at the refined time is
\* the one handed back
refine_extreme_reevaluated(d, t0, t1, t2, h0, h1, h2) ==
    LET denom == (t0 - t1) * (t0 - t2) * (t1 - t2)
        a_num == t2 * (h1 - h0) + t1 * (h0 - h2) + t0 * (h2 - h1)
        b_num == t2 * t2 * (h0 - h1) + t1 * t1 * (h2 - h0) + t0 * t0 * (h1 - h2)
        t_peak == IF a_num > 0 THEN RoundDiv(-b_num, 2 * a_num)
                  ELSE RoundDiv(b_num, -2 * a_num)
    IN  IF denom = 0 THEN [err |-> "none", t |-> t1, h |-> h1]
        ELSE IF Abs(a_num) * NegligibleDen < NegligibleNum * Abs(denom)
        THEN [err |-> "none", t |-> t1, h |-> h1]
        ELSE IF height_at(d, "newquay", t_peak).err # "none"
        THEN [err |-> "KeyError", t |-> t1, h |-> h1]
        ELSE [err |-> "none", t |-> t_peak, h |-> height_at(d, "newquay", t_peak).val]

\* TideCalculator._refine_extreme on the three samples around times[idx]:
\* [err, t, h].  The height handed back is heights[idx].
refine_extreme(d, t0, t1, t2, h0, h1, h2) ==
    LET denom == (t0 - t1) * (t0 - t2) * (t1 - t2)
        a_num == t2 * (h1 - h0) + t1 * (h0 - h2) + t0 * (h2 - h1)
        b_num == t2 * t2 * (h0 - h1) + t1 * t1 * (h2 - h0) + t0 * t0 * (h1 - h2)
        \* t_peak = -b / (2a), both over the same denom
        t_peak == IF a_num > 0 THEN RoundDiv(-b_num, 2 * a_num)
                  ELSE RoundDiv(b_num, -2 * a_num)
    IN  IF denom = 0 THEN [err |-> "none", t |-> t1, h |-> h1]
        ELSE IF Abs(a_num) * NegligibleDen < NegligibleNum * Abs(denom)
        THEN [err |-> "none", t |-> t1, h |-> h1]
        \* refined_h = self.height_at("newquay", refined_dt): computed, then dropped
        ELSE IF height_at(d, "newquay", t_peak).err # "none"
        THEN [err |-> "KeyError", t |-> t1, h |-> h1]
        ELSE [err |-> "none", t |-> t_peak, h |-> h1]

\* (mutant of TimeOffset) the high-water and low-water time offsets swapped
TimeOffsetSwapped(d, location, type) ==
    IF ~HasOffsets(d, location) THEN 0
    ELSE IF type = "high" THEN d[location].offsets.time_lw_min
    ELSE d[location].offsets.time_hw_min

\* the time and height offsets find_extremes adds to an event of a type
TimeOffset(d, location, type) ==
    IF ~HasOffsets(d, location) THEN 0
    ELSE IF type = "high" THEN d[location].offsets.time_hw_min
    ELSE d[location].offsets.time_lw_min

HeightOffset(d, location, type) ==
    IF ~HasOffsets(d, location) THEN 0
    ELSE IF type = "high" THEN d[location].offsets.height_hw_m
    ELSE d[location].offsets.height_lw_m

\* (mutant of InDay) the lower end of the day not tested
InDayNoLowerEnd(day, t) == t < day * DayMin + DayMin

\* (mutant of InDay) the upper end of the day not tested
InDayNoUpperEnd(day, t) == day * DayMin <= t

\* is the refined time inside the requested day
InDay(day, t) == day * DayMin <= t /\ t < day * DayMin + DayMin

\* extremes.sort(key=datetime): a stable insertion sort
RECURSIVE InsertSorted(_, _)
InsertSorted(s, e) ==
    IF s = <<>> THEN <<e>>
    ELSE IF s[Len(s)].datetime <= e.datetime THEN Append(s, e)
    ELSE Append(InsertSorted(SubSeq(s, 1, Len(s) - 1), e), s[Len(s)])

\* (mutant of SortByDatetime) the list left in the order of the scan
SortByDatetimeSkipped(s) == s

RECURSIVE SortByDatetime(_)
SortByDatetime(s) ==
    IF s = <<>> THEN <<>>
    ELSE InsertSorted(SortByDatetime(SubSeq(s, 1, Len(s) - 1)), s[Len(s)])

\* (mutant of ExtremeType) the low-water branch labels its event as the
\* high-water branch does
ExtremeTypeAlwaysHigh(heights, i) ==
    IF heights[i] > heights[i - 1] /\ heights[i] > heights[i + 1] THEN "high"
    ELSE IF heights[i] < heights[i - 1] /\ heights[i] < heights[i + 1] THEN "high"
    ELSE "none"

\* (mutant of ExtremeType) a sample equal to the one before it passes the test
ExtremeTypeAfterEqual(heights, i) ==
    IF heights[i] >= heights[i - 1] /\ heights[i] > heights[i + 1] THEN "high"
    ELSE IF heights[i] <= heights[i - 1] /\ heights[i] < heights[i + 1] THEN "low"
    ELSE "none"

\* the three-point test at index i: "high", "low" or "none"
ExtremeType(heights, i) ==
    IF heights[i] > heights[i - 1] /\ heights[i] > heights[i + 1] THEN "high"
    ELSE IF heights[i] < heights[i - 1] /\ heights[i] < heights[i + 1] THEN "low"
    ELSE "none"

\* the loop "for i in range(1, len(heights) - 1)" over the indices that pass
\* the three-point test, in increasing order: [err, events], the events in
\* the order the loop appends them
RECURSIVE ScanExtremes(_, _, _, _, _)
ScanExtremes(d, location, day, heights, todo) ==
    IF todo = {} THEN [err |-> "none", events |-> <<>>]
    ELSE
      LET i == CHOOSE x \in todo : \A y \in todo : x <= y
          type == ExtremeType(heights, i)
          r == refine_extreme(d, GridTime(day, i - 1), GridTime(day, i),
                              GridTime(day, i + 1),
                              heights[i - 1], heights[i], heights[i + 1])
          rest == ScanExtremes(d, location, day, heights, todo \ {i})
      IN  IF r.err # "none" THEN [err |-> r.err, events |-> <<>>]
          ELSE IF rest.err # "none" THEN rest
          ELSE IF InDay(day, r.t)
          THEN [err |-> "none",
                events |-> <<[datetime |-> r.t + TimeOffset(d, location, type),
                              height |-> r.h + HeightOffset(d, location, type),
                              type |-> type]>> \o rest.events]
          ELSE rest

\* the lists the loop "while t <= end" of find_extremes fills, indexed from 0
scan_grid(d, base_loc, day) ==
    [times |-> [i \in 0..(GridLen(day) - 1) |-> GridTime(day, i)],
     heights |-> [i \in 0..(GridLen(day) - 1) |-> Synth(d, base_loc, GridTime(day, i))]]

\* no list filled
NoGrid == [times |-> <<>>, heights |-> <<>>]

\* TideCalculator.find_extremes: [err, events]
find_extremes(d, location, day) ==
    LET base_loc == BaseLoc(d, location)
    IN  IF base_loc \notin DOMAIN d THEN [err |-> "KeyError", events |-> <<>>]
        ELSE
          LET heights == scan_grid(d, base_loc, day).heights
              todo == {i \in 1..(GridLen(day) - 2) : ExtremeType(heights, i) # "none"}
              scan == ScanExtremes(d, location, day, heights, todo)
          IN  IF scan.err # "none" THEN scan
              ELSE [err |-> "none", events |-> SortByDatetime(scan.events)]

----------------------------------------------------------------------------
(* The harmonic datasets of the model (harmonics.json, loaded by __init__) *)

\* config.LOCATIONS, in order
LOCATIONS == <<"newquay", "holywell", "polzeath", "port_isaac">>

\* a location id no dataset holds
UnknownLoc == "padstow"

NoOffsets ==
    [present |-> FALSE, time_hw_min |-> 0, time_lw_min |-> 0,
     height_hw_m |-> 0, height_lw_m |-> 0]

MkOffsets(thw, tlw, hhw, hlw) ==
    [present |-> TRUE, time_hw_min |-> thw, time_lw_min |-> tlw,
     height_hw_m |-> hhw, height_lw_m |-> hlw]

\* the offsets of port_isaac a run may be given: those of scrape_and_fit.py,
\* a pair whose low-water values exceed the high-water ones, and a high-water
\* delay longer than the time from a high water to the next low water
PortIsaacOffsets ==
    {MkOffsets(6, 0, 500, 100), MkOffsets(-10, 20, 200, 400), MkOffsets(400, 0, 0, 0)}

\* the lag of the reference station's M2 wave: a high water on a grid point,
\* one midway between two grid points, one two minutes before midnight,
\* one two minutes after midnight
Lags == {0, 3, 694, 698}

\* the reference station and the three subordinate stations; each subordinate
\* carries constituents and a mean level of its own beside its offsets
Dataset(lag, pi_offsets) ==
    [l \in {"newquay", "holywell", "polzeath", "port_isaac"} |->
        IF l = "newquay"
        THEN [constituents |-> <<[name |-> "M2", amplitude |-> 3000, phase |-> lag]>>,
              mean_level |-> 3700,
              offsets |-> NoOffsets]
        ELSE [constituents |-> <<[name |-> "S2", amplitude |-> 1000, phase |-> 0],
                                 [name |-> "K1", amplitude |-> 300, phase |-> 100]>>,
              mean_level |-> 1000,
              offsets |-> IF l = "holywell" THEN MkOffsets(0, 0, 0, 0)
                          ELSE IF l = "polzeath" THEN MkOffsets(5, 5, 0, 0)
                          ELSE pi_offsets]]

\* the same without one of its locations
Without(d, l) == [x \in DOMAIN d \ {l} |-> d[x]]

\* the same with a reference station of amplitude 0: a flat curve
Flat(d) ==
    [d EXCEPT !["newquay"].constituents = <<[name |-> "M2", amplitude |-> 0, phase |-> 0]>>]

\* a second reference station, with constituents of its own and no offsets
SecondRef == "perranporth"

\* two reference stations and no subordinate one
TwoReferences(lag) ==
    [l \in {"newquay", SecondRef} |->
        [constituents |-> <<[name |-> "M2",
                             amplitude |-> IF l = "newquay" THEN 3000 ELSE 2900,
                             phase |-> lag]>>,
         mean_level |-> 3700,
         offsets |-> NoOffsets]]

\* a reference station alone, on an N2 wave whose high waters fall a minute
\* from a grid point and whose first low water of the day falls midway
\* between two grid points
MidwayLow ==
    [l \in {"newquay"} |->
        [constituents |-> <<[name |-> "N2", amplitude |-> 3000, phase |-> 1]>>,
         mean_level |-> 3700,
         offsets |-> NoOffsets]]

Datasets ==
    LET full == {Dataset(lag, o) : lag \in Lags, o \in PortIsaacOffsets}
    IN  full \cup {Without(d, "port_isaac") : d \in full}
             \cup {Flat(Dataset(0, MkOffsets(6, 0, 500, 100)))}
             \cup {TwoReferences(694), Without(TwoReferences(694), "newquay")}
             \cup {MidwayLow}

\* the instants within a day at which a run asks for a point height
QueryMinutes == {0, 186, 372, 1437}

----------------------------------------------------------------------------
(* services/tide_scraper.py: _parse_forecasts *)

\* British Summer Time begins in the night of this day of the model's calendar
BstStartDay == 1

\* UK_TZ's offset from UTC, in minutes, at a naive local wall time: the clocks
\* go from 01:00 to 02:00; a wall time inside that gap keeps the winter offset
UKOffset(local) == IF local >= BstStartDay * DayMin + 120 THEN 60 ELSE 0

\* dt_local.replace(tzinfo=UK_TZ).astimezone(UTC_TZ).replace(tzinfo=None)
ToUTC(local) == local - UKOffset(local)

\* The body of "for f in forecasts" for one element f of the JSON array:
\*   f.is_object      FALSE for a JSON value that is no object (f.get raises
\*                    AttributeError, which "except (ValueError, TypeError)"
\*                    does not catch)
\*   forecast_at.kind "missing" (absent, null or ""), "text" (a string none of
\*                    the four formats matches), "number" (dt_str[:19] raises
\*                    TypeError) or "time" (t the local wall time)
\*   tide_height.kind "missing" (absent or null), "text" (float() raises
\*                    ValueError) or "number" (v the height)
\*   tide_type        "" (absent, null or ""), "HW" or any other text
ParseEntry(f) ==
    IF ~f.is_object THEN [outcome |-> "raise"]
    ELSE IF f.forecast_at.kind = "missing" \/ f.tide_height.kind = "missing"
            \/ f.tide_type = ""
    THEN [outcome |-> "skip"]
    ELSE IF f.forecast_at.kind # "time" THEN [outcome |-> "skip"]
    ELSE IF f.tide_height.kind # "number" THEN [outcome |-> "skip"]
    ELSE [outcome |-> "append",
          entry |-> [datetime_utc |-> ToUTC(f.forecast_at.t),
                     type |-> IF f.tide_type = "HW" THEN "high" ELSE "low",
                     height |-> f.tide_height.v]]

RECURSIVE ParseLoop(_, _)
ParseLoop(forecasts, i) ==
    IF i > Len(forecasts) THEN [err |-> "none", val |-> <<>>]
    ELSE LET r == ParseEntry(forecasts[i])
             rest == ParseLoop(forecasts, i + 1)
         IN  IF r.outcome = "raise" THEN [err |-> "AttributeError", val |-> <<>>]
             ELSE IF rest.err # "none" THEN rest
             ELSE IF r.outcome = "append"
             THEN [err |-> "none", val |-> <<r.entry>> \o rest.val]
             ELSE rest

\* _parse_forecasts(html): [err, val].  Of the page: found, whether the
\* tt.forecast pattern matches; json_ok, whether the match decodes;
\* has_forecasts, whether the object has a "forecasts" key; forecasts, its array.
parse_forecasts(page) ==
    IF ~page.found THEN [err |-> "none", val |-> <<>>]
    ELSE IF ~page.json_ok THEN [err |-> "none", val |-> <<>>]
    ELSE IF ~page.has_forecasts THEN [err |-> "none", val |-> <<>>]
    ELSE ParseLoop(page.forecasts, 1)

\* forecast entries of a page
Obj(fa, th, tt) == [is_object |-> TRUE, forecast_at |-> fa, tide_height |-> th, tide_type |-> tt]
AtTime(t) == [kind |-> "time", t |-> t]
AtOther(k) == [kind |-> k, t |-> 0]
Num(v) == [kind |-> "number", v |-> v]
HOther(k) == [kind |-> k, v |-> 0]
NotAnObject == [is_object |-> FALSE, forecast_at |-> AtOther("missing"),
                tide_height |-> HOther("missing"), tide_type |-> ""]

Page(forecasts) ==
    [found |-> TRUE, json_ok |-> TRUE, has_forecasts |-> TRUE, forecasts |-> forecasts]

\* the local wall times of the entries: noon of day 0, and half past midnight
\* of the day after the clocks went forward (23:30 UTC of the day before)
NoonDay0 == 12 * 60
NightAfterBst == (BstStartDay + 1) * DayMin + 30

\* the entries a parser run is handed: well-formed ones, entries with one
\* field malformed, and a value that is no object
WellFormedEntries ==
    {Obj(AtTime(t), Num(4567), tt) : t \in {NoonDay0, NightAfterBst}, tt \in {"HW", "LW"}}

MalformedEntries ==
    {Obj(AtOther(k), Num(4567), "HW") : k \in {"missing", "text", "number"}}
    \cup {Obj(AtTime(NoonDay0), HOther(k), "LW") : k \in {"missing", "text"}}
    \cup {Obj(AtTime(NoonDay0), Num(4567), "")}
    \cup {NotAnObject}

SeqsUpTo(S, n) == UNION {[1..k -> S] : k \in 0..n}

ParsePages ==
    {Page(fs) : fs \in SeqsUpTo(WellFormedEntries \cup MalformedEntries, MaxForecasts)}
    \cup {[found |-> FALSE, json_ok |-> FALSE, has_forecasts |-> FALSE, forecasts |-> <<>>],
          [found |-> TRUE, json_ok |-> FALSE, has_forecasts |-> FALSE, forecasts |-> <<>>],
          [found |-> TRUE, json_ok |-> TRUE, has_forecasts |-> FALSE, forecasts |-> <<>>]}

----------------------------------------------------------------------------
(* The store and the overlay, before they run *)

EmptyStore == [predictions |-> {}, hourly_levels |-> {}, sun_times |-> {}]

NoConn == [open |-> FALSE, view |-> EmptyStore]

IdleBuild ==
    /\ today = 0
    /\ committed = EmptyStore
    /\ conn = NoConn
    /\ pc = "off"
    /\ current = 0
    /\ loc_idx = 1
    /\ prev_gen = EmptyStore

IdleOverlay ==
    /\ pre = EmptyStore
    /\ ov_idx = 1
    /\ slug_cache = <<>>
    /\ ov_status = <<>>
    /\ store_faults = 0
    /\ net_log = <<>>

IdleParse ==
    /\ html = [found |-> FALSE, json_ok |-> FALSE, has_forecasts |-> FALSE, forecasts |-> <<>>]
    /\ parsed = [err |-> "none", val |-> <<>>]

IdleCalc ==
    /\ op = "none"
    /\ arg_loc = "newquay"
    /\ arg_t = 0
    /\ ret = [err |-> "none"]
    /\ grid = NoGrid

----------------------------------------------------------------------------
(* Calculator runs: one dataset, then one engine operation on any location  *)
(* (the dataset is immutable and the operations are pure)                   *)

QueryLocs == {"newquay", "holywell", "polzeath", "port_isaac", SecondRef, UnknownLoc}

CallFindExtremes(location, day) ==
    /\ op = "none"
    /\ op' = "find_extremes"
    /\ arg_loc' = location
    /\ arg_t' = day
    /\ ret' = find_extremes(data, location, day)
    /\ grid' = IF BaseLoc(data, location) \in DOMAIN data
               THEN scan_grid(data, BaseLoc(data, location), day)
               ELSE NoGrid
    /\ UNCHANGED <<data, parse_vars, build_vars, ov_vars>>

CallHeightAt(location, t) ==
    /\ op = "none"
    /\ op' = "height_at"
    /\ arg_loc' = location
    /\ arg_t' = t
    /\ ret' = height_at(data, location, t)
    /\ UNCHANGED <<data, grid, parse_vars, build_vars, ov_vars>>

CallHourlyHeights(location, day) ==
    /\ op = "none"
    /\ op' = "hourly_heights"
    /\ arg_loc' = location
    /\ arg_t' = day
    /\ ret' = hourly_heights(data, location, day)
    /\ UNCHANGED <<data, grid, parse_vars, build_vars, ov_vars>>

InitCalc ==
    /\ data \in Datasets
    /\ IdleCalc
    /\ IdleParse
    /\ IdleBuild
    /\ IdleOverlay

NextCalc ==
    \/ \E location \in QueryLocs, day \in 0..MaxDay : CallFindExtremes(location, day)
    \/ \E location \in QueryLocs, day \in 0..MaxDay, m \in QueryMinutes :
          CallHeightAt(location, day * DayMin + m)
    \/ \E location \in QueryLocs, day \in 0..MaxDay : CallHourlyHeights(location, day)

SpecCalc == InitCalc /\ [][NextCalc]_vars

----------------------------------------------------------------------------
(* Parser runs: one fetched page, handed to _parse_forecasts *)

CallParseForecasts ==
    /\ parsed.err = "unset"
    /\ parsed' = parse_forecasts(html)
    /\ UNCHANGED <<html, calc_vars, build_vars, ov_vars>>

InitParse ==
    /\ html \in ParsePages
    /\ parsed = [err |-> "unset", val |-> <<>>]
    /\ data = Dataset(0, NoOffsets)
    /\ IdleCalc
    /\ IdleBuild
    /\ IdleOverlay

NextParse == CallParseForecasts

SpecParse == InitParse /\ [][NextParse]_vars

----------------------------------------------------------------------------
(* database.py: the store and get_db *)

\* round(x, 2) of a height in metres: millimetres to whole centimetres
Round2(mm) == RoundDiv(mm, 10)

\* the calendar date of a stored datetime_utc (its first ten characters)
DateOf(t) == t \div DayMin

\* INSERT OR REPLACE under UNIQUE(location, datetime_utc, type)
UpsertPrediction(rows, row) ==
    {r \in rows : ~(r.location = row.location /\ r.datetime_utc = row.datetime_utc
                    /\ r.type = row.type)} \cup {row}

\* INSERT OR REPLACE under UNIQUE(location, datetime_utc)
UpsertHourly(rows, row) ==
    {r \in rows : ~(r.location = row.location /\ r.datetime_utc = row.datetime_utc)}
    \cup {row}

\* INSERT OR REPLACE under UNIQUE(location, date)
UpsertSun(rows, row) ==
    {r \in rows : ~(r.location = row.location /\ r.date = row.date)} \cup {row}

\* get_db(): sqlite3.connect; the connection reads what is committed and
\* keeps its own writes in an open transaction
GetDbEnter(store) == [open |-> TRUE, view |-> store]

\* get_db() left without an exception: conn.commit(), then conn.close()
GetDbExit(c, store) == c.view

\* (mutant of GetDbExitOnError) the commit moved into the finally clause
GetDbExitOnErrorCommits(c, store) == c.view

\* get_db() left by an exception: only conn.close(), the transaction is dropped
GetDbExitOnError(c, store) == store

----------------------------------------------------------------------------
(* services/cache_builder.py: build_cache *)

\* sun_calc.get_sun_times(loc, current): the astral library's clock times
SunTimes(location, day) == [sunrise |-> 8 * 60 - day, sunset |-> 16 * 60 + day]

RECURSIVE WriteExtremes(_, _, _, _)
WriteExtremes(rows, location, extremes, i) ==
    IF i > Len(extremes) THEN rows
    ELSE WriteExtremes(
            UpsertPrediction(rows, [location |-> location,
                                    datetime_utc |-> extremes[i].datetime,
                                    type |-> extremes[i].type,
                                    height_metres |-> Round2(extremes[i].height)]),
            location, extremes, i + 1)

\* (mutant of WriteHourly) every sample written, whatever its date
RECURSIVE WriteHourlyUnfiltered(_, _, _, _, _)
WriteHourlyUnfiltered(rows, location, day, hourly, i) ==
    IF i > Len(hourly) THEN rows
    ELSE WriteHourlyUnfiltered(
            UpsertHourly(rows, [location |-> location,
                                datetime_utc |-> hourly[i][1],
                                height_metres |-> Round2(hourly[i][2])]),
            location, day, hourly, i + 1)

RECURSIVE WriteHourly(_, _, _, _, _)
WriteHourly(rows, location, day, hourly, i) ==
    IF i > Len(hourly) THEN rows
    ELSE WriteHourly(
            IF DateOf(hourly[i][1]) = day
            THEN UpsertHourly(rows, [location |-> location,
                                     datetime_utc |-> hourly[i][1],
                                     height_metres |-> Round2(hourly[i][2])])
            ELSE rows,
            location, day, hourly, i + 1)

\* the three writes of one (day, location) of the loop
WriteDay(view, location, day, extremes, hourly) ==
    [predictions |-> WriteExtremes(view.predictions, location, extremes, 1),
     hourly_levels |-> WriteHourly(view.hourly_levels, location, day, hourly, 1),
     sun_times |-> UpsertSun(view.sun_times,
                             [location |-> location, date |-> day,
                              sunrise |-> SunTimes(location, day).sunrise,
                              sunset |-> SunTimes(location, day).sunset])]

\* the dataset holds every location of config.LOCATIONS
Complete(d) == \A i \in 1..Len(LOCATIONS) : LOCATIONS[i] \in DOMAIN d

\* the rows a completed build started on day start leaves, table by table:
\* for every day of the loop and every location, its extremes, the hourly
\* samples dated that day, its sun times
Generation(d, start) ==
    LET days == start..(start + PRECALC_DAYS)
        locs == {LOCATIONS[i] : i \in 1..Len(LOCATIONS)}
    IN  [predictions |->
            UNION {{[location |-> l, datetime_utc |-> e.datetime, type |-> e.type,
                     height_metres |-> Round2(e.height)] :
                       e \in {find_extremes(d, l, day).events[k] :
                                 k \in 1..Len(find_extremes(d, l, day).events)}} :
                   l \in locs, day \in days},
         hourly_levels |->
            UNION {{[location |-> l,
                     datetime_utc |-> hourly_heights(d, l, day).val[k][1],
                     height_metres |-> Round2(hourly_heights(d, l, day).val[k][2])] :
                       k \in {k \in 1..HourlySamples :
                                 DateOf(hourly_heights(d, l, day).val[k][1]) = day}} :
                   l \in locs, day \in days},
         sun_times |->
            {[location |-> l, date |-> day,
              sunrise |-> SunTimes(l, day).sunrise,
              sunset |-> SunTimes(l, day).sunset] : l \in locs, day \in days}]

\* (mutant of BuildOpen) the three DELETEs left out
BuildOpenNoWipe ==
    /\ pc = "idle"
    /\ conn' = GetDbEnter(committed)
    /\ current' = today
    /\ loc_idx' = 1
    /\ pc' = "build"
    /\ UNCHANGED <<today, committed, prev_gen, calc_vars, parse_vars, ov_vars>>

\* build_cache up to the three DELETEs
BuildOpen ==
    /\ pc = "idle"
    /\ conn' = [GetDbEnter(committed) EXCEPT !.view = EmptyStore]
    /\ current' = today
    /\ loc_idx' = 1
    /\ pc' = "build"
    /\ UNCHANGED <<today, committed, prev_gen, calc_vars, parse_vars, ov_vars>>

\* one (day, location) of the loop; a KeyError of the calculator leaves the
\* with block
BuildStep ==
    /\ pc = "build"
    /\ current <= today + PRECALC_DAYS
    /\ LET location == LOCATIONS[loc_idx]
           ex == find_extremes(data, location, current)
           ho == hourly_heights(data, location, current)
       IN  IF ex.err # "none" \/ ho.err # "none"
           THEN /\ committed' = GetDbExitOnError(conn, committed)
                /\ conn' = NoConn
                /\ pc' = "build_raised"
                /\ UNCHANGED <<current, loc_idx>>
           ELSE /\ conn' = [conn EXCEPT !.view =
                               WriteDay(conn.view, location, current, ex.events, ho.val)]
                /\ IF loc_idx < Len(LOCATIONS)
                   THEN loc_idx' = loc_idx + 1 /\ current' = current
                   ELSE loc_idx' = 1 /\ current' = current + 1
                /\ UNCHANGED <<committed, pc>>
    /\ UNCHANGED <<today, prev_gen, calc_vars, parse_vars, ov_vars>>

\* any other exception inside the with block (sqlite3.Error of a write or of
\* the commit, an error of the sun calculator), or the process being killed
BuildRaises ==
    /\ pc = "build"
    /\ committed' = GetDbExitOnError(conn, committed)
    /\ conn' = NoConn
    /\ pc' = "build_raised"
    /\ UNCHANGED <<today, current, loc_idx, prev_gen, calc_vars, parse_vars, ov_vars>>

\* the loop is over: the with block commits and closes
BuildCommit ==
    /\ pc = "build"
    /\ current > today + PRECALC_DAYS
    /\ committed' = GetDbExit(conn, committed)
    /\ conn' = NoConn
    /\ pc' = "built"
    /\ UNCHANGED <<today, current, loc_idx, prev_gen, calc_vars, parse_vars, ov_vars>>

----------------------------------------------------------------------------
(* services/tide_scraper.py: scrape_and_overlay *)

\* SCRAPE_SLUGS.items(), in order
SCRAPE_SLUGS ==
    <<[location |-> "newquay", slug |-> "newquay"],
      [location |-> "holywell", slug |-> "newquay"],
      [location |-> "polzeath", slug |-> "padstow"],
      [location |-> "port_isaac", slug |-> "port-isaac"]>>

\* the pages the remote site may answer a fetch with: two entries on two UTC
\* dates around a malformed one; two entries for the same instant and type;
\* nothing but a malformed entry; an entry that is no object
OverlayPages ==
    {Page(<<Obj(AtTime(NoonDay0), Num(4567), "HW"),
            Obj(AtOther("text"), Num(4567), "HW"),
            Obj(AtTime(NightAfterBst), Num(1234), "LW")>>),
     Page(<<Obj(AtTime(NoonDay0), Num(4567), "HW"),
            Obj(AtTime(NoonDay0), Num(4581), "HW")>>),
     Page(<<Obj(AtTime(NoonDay0), HOther("text"), "LW")>>),
     Page(<<Obj(AtTime(NoonDay0), Num(4567), "HW"), NotAnObject>>)}

\* dates_covered
DatesCovered(forecasts) == {DateOf(forecasts[k].datetime_utc) : k \in 1..Len(forecasts)}

\* (mutant of DeleteCovered) the DELETE without "location = ?"
DeleteCoveredEverywhere(rows, location, dates) ==
    {r \in rows : DateOf(r.datetime_utc) \notin dates}

\* (mutant of DeleteCovered) the DELETE without the date pattern
DeleteWholeLocation(rows, location, dates) ==
    {r \in rows : r.location # location}

\* (mutant of DeleteCovered) no DELETE before the inserts
DeleteNothing(rows, location, dates) == rows

\* DELETE FROM predictions WHERE location = ? AND datetime_utc LIKE 'd%', for
\* every d of dates
DeleteCovered(rows, location, dates) ==
    {r \in rows : ~(r.location = location /\ DateOf(r.datetime_utc) \in dates)}

\* the first n INSERT OR REPLACE of "for f in forecasts"
RECURSIVE InsertForecasts(_, _, _, _)
InsertForecasts(rows, location, forecasts, n) ==
    IF n = 0 THEN rows
    ELSE UpsertPrediction(
            InsertForecasts(rows, location, forecasts, n - 1),
            [location |-> location,
             datetime_utc |-> forecasts[n].datetime_utc,
             type |-> forecasts[n].type,
             height_metres |-> Round2(forecasts[n].height)])

ItemLocation == SCRAPE_SLUGS[ov_idx].location
ItemSlug == SCRAPE_SLUGS[ov_idx].slug

\* "if slug not in slug_cache"
NeedsFetch == ItemSlug \notin DOMAIN slug_cache

\* "if slug_cache: time.sleep(0.5)", then _fetch_page(slug, today_str)
LogOfFetch ==
    net_log \o (IF DOMAIN slug_cache # {} THEN <<[ev |-> "sleep", slug |-> ItemSlug]>>
                ELSE <<>>)
            \o <<[ev |-> "fetch", slug |-> ItemSlug]>>

\* slug_cache[slug] = forecasts
Cached(cache, slug, forecasts) ==
    [x \in DOMAIN cache \cup {slug} |-> IF x = slug THEN forecasts ELSE cache[x]]

\* scrape_and_overlay() called by build_cache with no connection: it opens one
OvOpen ==
    /\ pc = "built"
    /\ conn' = GetDbEnter(committed)
    /\ pre' = committed
    /\ ov_idx' = 1
    /\ slug_cache' = <<>>
    /\ ov_status' = <<>>
    /\ net_log' = <<>>
    /\ pc' = "overlay"
    /\ UNCHANGED <<today, committed, current, loc_idx, prev_gen, store_faults,
                   calc_vars, parse_vars>>

\* the loop "for location, slug in SCRAPE_SLUGS.items()" has an item left
OvInLoop == pc = "overlay" /\ ov_idx <= Len(SCRAPE_SLUGS)

\* what every iteration of the loop does
OvNext(status) ==
    /\ OvInLoop
    /\ ov_status' = Append(ov_status, status)
    /\ ov_idx' = ov_idx + 1
    /\ UNCHANGED <<today, committed, pc, current, loc_idx, prev_gen, pre,
                   calc_vars, parse_vars>>

\* _fetch_page returned None: "continue"
OvFetchFailed ==
    /\ OvNext("fetch_failed")
    /\ NeedsFetch
    /\ net_log' = LogOfFetch
    /\ UNCHANGED <<conn, slug_cache, store_faults>>

\* _parse_forecasts raised: caught by the "except Exception" of the iteration
OvParseRaised ==
    /\ OvNext("parse_raised")
    /\ NeedsFetch
    /\ \E page \in OverlayPages : parse_forecasts(page).err # "none"
    /\ net_log' = LogOfFetch
    /\ UNCHANGED <<conn, slug_cache, store_faults>>

\* _parse_forecasts returned no entry: "continue"
OvParsedNothing ==
    /\ OvNext("parsed_nothing")
    /\ NeedsFetch
    /\ \E page \in OverlayPages :
          parse_forecasts(page).err = "none" /\ parse_forecasts(page).val = <<>>
    /\ net_log' = LogOfFetch
    /\ UNCHANGED <<conn, slug_cache, store_faults>>

\* the deletes and the inserts of an iteration, every statement succeeding
OvWriteAll(forecasts) ==
    /\ OvNext("overlaid")
    /\ conn' = [conn EXCEPT !.view.predictions =
                   InsertForecasts(
                       DeleteCovered(conn.view.predictions, ItemLocation,
                                     DatesCovered(forecasts)),
                       ItemLocation, forecasts, Len(forecasts))]
    /\ UNCHANGED store_faults

\* a DELETE raises sqlite3.Error after the dates of "deleted" (the set is
\* iterated in no particular order) were deleted
OvDeleteRaises(forecasts) ==
    /\ OvNext("delete_raised")
    /\ store_faults < MaxStoreFaults
    /\ store_faults' = store_faults + 1
    /\ \E deleted \in SUBSET DatesCovered(forecasts) :
          /\ deleted # DatesCovered(forecasts)
          /\ conn' = [conn EXCEPT !.view.predictions =
                         DeleteCovered(conn.view.predictions, ItemLocation, deleted)]

\* an INSERT raises sqlite3.Error after the deletes and the first n inserts
OvInsertRaises(forecasts) ==
    /\ OvNext("insert_raised")
    /\ store_faults < MaxStoreFaults
    /\ store_faults' = store_faults + 1
    /\ \E n \in 0..(Len(forecasts) - 1) :
          conn' = [conn EXCEPT !.view.predictions =
                      InsertForecasts(
                          DeleteCovered(conn.view.predictions, ItemLocation,
                                        DatesCovered(forecasts)),
                          ItemLocation, forecasts, n)]

OvWrite(forecasts) ==
    \/ OvWriteAll(forecasts)
    \/ OvDeleteRaises(forecasts)
    \/ OvInsertRaises(forecasts)

\* the slug is fetched, parsed to at least one entry and cached; then the writes
OvOverlayFetched ==
    /\ OvInLoop
    /\ NeedsFetch
    /\ \E page \in OverlayPages :
          /\ parse_forecasts(page).err = "none"
          /\ parse_forecasts(page).val # <<>>
          /\ slug_cache' = Cached(slug_cache, ItemSlug, parse_forecasts(page).val)
          /\ OvWrite(parse_forecasts(page).val)
    /\ net_log' = LogOfFetch

\* the slug is in slug_cache: no sleep, no fetch; then the writes
OvOverlayCached ==
    /\ OvInLoop
    /\ ~NeedsFetch
    /\ OvWrite(slug_cache[ItemSlug])
    /\ UNCHANGED <<slug_cache, net_log>>

\* after the loop db.commit() succeeds; the finally clause leaves get_db
OvCommit ==
    /\ pc = "overlay"
    /\ ov_idx > Len(SCRAPE_SLUGS)
    /\ committed' = GetDbExit(conn, committed)
    /\ conn' = NoConn
    /\ pc' = "done"
    /\ UNCHANGED <<today, current, loc_idx, prev_gen, calc_vars, parse_vars, ov_vars>>

\* db.commit() raises sqlite3.Error (a commit with no statement pending does
\* nothing and cannot): the outer except logs "harmonic predictions unchanged"
OvCommitRaises ==
    /\ pc = "overlay"
    /\ ov_idx > Len(SCRAPE_SLUGS)
    /\ conn.view # committed
    /\ store_faults < MaxStoreFaults
    /\ store_faults' = store_faults + 1
    /\ pc' = "overlay_finally"
    /\ UNCHANGED <<today, committed, conn, current, loc_idx, prev_gen, calc_vars,
                   parse_vars, pre, ov_idx, slug_cache, ov_status, net_log>>

\* the finally clause after a failed commit: ctx.__exit__(None, None, None)
\* resumes get_db after its yield, which commits again and closes
OvExitCommits ==
    /\ pc = "overlay_finally"
    /\ committed' = GetDbExit(conn, committed)
    /\ conn' = NoConn
    /\ pc' = "done"
    /\ UNCHANGED <<today, current, loc_idx, prev_gen, calc_vars, parse_vars, ov_vars>>

\* that second commit raises as well: get_db closes the connection and the
\* exception leaves scrape_and_overlay
OvExitRaises ==
    /\ pc = "overlay_finally"
    /\ committed' = GetDbExitOnError(conn, committed)
    /\ conn' = NoConn
    /\ pc' = "overlay_raised"
    /\ UNCHANGED <<today, current, loc_idx, prev_gen, calc_vars, parse_vars, ov_vars>>

----------------------------------------------------------------------------
(* A run of the service: build_cache, which ends in scrape_and_overlay *)

\* what an earlier run of build_cache left in the store
OldGeneration ==
    [predictions |-> {[location |-> "newquay", datetime_utc |-> 100 - DayMin,
                       type |-> "high", height_metres |-> 650]},
     hourly_levels |-> {[location |-> "newquay", datetime_utc |-> 0 - DayMin,
                         height_metres |-> 370]},
     sun_times |-> {[location |-> "newquay", date |-> 0 - 1,
                     sunrise |-> 8 * 60, sunset |-> 16 * 60]}]

\* the datasets a build runs on: the full one, and one that lacks a location
\* of config.LOCATIONS
BuildDatasets ==
    {Dataset(694, MkOffsets(6, 0, 500, 100)),
     Without(Dataset(694, MkOffsets(6, 0, 500, 100)), "port_isaac")}

\* the store a run finds: empty, left by a run of an earlier day, or left by
\* an earlier run of the same day on the same dataset
Init ==
    /\ data \in BuildDatasets
    /\ today \in 0..MaxToday
    /\ committed \in {EmptyStore, OldGeneration}
                      \cup (IF Complete(data) THEN {Generation(data, today)} ELSE {})
    /\ prev_gen = committed
    /\ conn = NoConn
    /\ pc = "idle"
    /\ current = today
    /\ loc_idx = 1
    /\ IdleOverlay
    /\ IdleCalc
    /\ IdleParse

Next ==
    \/ BuildOpen
    \/ BuildStep
    \/ BuildRaises
    \/ BuildCommit
    \/ OvOpen
    \/ OvFetchFailed
    \/ OvParseRaised
    \/ OvParsedNothing
    \/ OvOverlayFetched
    \/ OvOverlayCached
    \/ OvCommit
    \/ OvCommitRaises
    \/ OvExitCommits
    \/ OvExitRaises

Spec == Init /\ [][Next]_vars

----------------------------------------------------------------------------
(* CLAIMS *)

Range(s) == {s[i] : i \in 1..Len(s)}

\* the predictions rows of a location, and those of one date
LocRows(store, location) == {r \in store.predictions : r.location = location}
RowsOn(store, location, d) ==
    {r \in store.predictions : r.location = location /\ DateOf(r.datetime_utc) = d}

\* the location whose iteration of the overlay loop was the i-th, and the
\* forecasts that iteration had in hand once its slug was cached
LocationOf(i) == SCRAPE_SLUGS[i].location
ForecastsOf(i) == slug_cache[SCRAPE_SLUGS[i].slug]

\* the parsed entries dated d as TideEvent rows of a location: one row per
\* (datetime_utc, type), a repeated key standing for its last entry, the
\* height in centimetres
EntriesAsRows(location, forecasts, d) ==
    {[location |-> location,
      datetime_utc |-> forecasts[k].datetime_utc,
      type |-> forecasts[k].type,
      height_metres |-> Round2(forecasts[k].height)] :
        k \in {k \in 1..Len(forecasts) :
                 /\ DateOf(forecasts[k].datetime_utc) = d
                 /\ \A j \in (k + 1)..Len(forecasts) :
                       ~(forecasts[j].datetime_utc = forecasts[k].datetime_utc
                         /\ forecasts[j].type = forecasts[k].type)}}

\* C1: after a pass of scrape_and_overlay in which a fetch failed, every
\* location whose fetch failed holds exactly the predictions rows it held
\* before the pass, for every date, and every location that was overlaid holds
\* on each covered date exactly the entries parsed for its identifier.
C1_FailedFetchKeepsRows ==
    pc = "done" =>
        \A i \in 1..Len(SCRAPE_SLUGS) :
            /\ ov_status[i] = "fetch_failed" =>
                  LocRows(committed, LocationOf(i)) = LocRows(pre, LocationOf(i))
            /\ ov_status[i] = "overlaid" =>
                  \A d \in DatesCovered(ForecastsOf(i)) :
                      RowsOn(committed, LocationOf(i), d)
                          = EntriesAsRows(LocationOf(i), ForecastsOf(i), d)

\* C1 witness: the pass is over, the fetch of one identifier failed for every
\* location mapped to it, whose harmonic rows exist, and every location of
\* the other identifiers was overlaid and holds other rows than before
C1_Witness ==
    /\ pc = "done"
    /\ \E s \in {SCRAPE_SLUGS[i].slug : i \in 1..Len(SCRAPE_SLUGS)} :
          \A i \in 1..Len(SCRAPE_SLUGS) :
              IF SCRAPE_SLUGS[i].slug = s
              THEN /\ ov_status[i] = "fetch_failed"
                   /\ LocRows(pre, LocationOf(i)) # {}
              ELSE /\ ov_status[i] = "overlaid"
                   /\ LocRows(committed, LocationOf(i)) # LocRows(pre, LocationOf(i))

\* the store as the overlay pass has it: its open transaction, or what it
\* committed
OverlayStore == IF conn.open THEN conn.view ELSE committed

\* C2: for every location whose forecast was fetched and parsed and whose
\* overlay was written, and every UTC date d among the parsed entries, the
\* predictions rows for (location, d) are exactly the parsed entries dated d:
\* no row the location held for d before the pass survives unless it is one of
\* them.
C2_CoveredDatesFullyReplaced ==
    pc \in {"overlay", "overlay_finally", "done"} =>
        \A i \in 1..Len(ov_status) :
            ov_status[i] = "overlaid" =>
                \A d \in DatesCovered(ForecastsOf(i)) :
                    /\ RowsOn(OverlayStore, LocationOf(i), d)
                          = EntriesAsRows(LocationOf(i), ForecastsOf(i), d)
                    /\ \A r \in RowsOn(pre, LocationOf(i), d) :
                          r \in OverlayStore.predictions
                              => r \in EntriesAsRows(LocationOf(i), ForecastsOf(i), d)

\* C2 witness: an overlaid location held harmonic rows on a covered date, and
\* none of them is left
C2_Witness ==
    /\ pc = "done"
    /\ \E i \in 1..Len(ov_status) :
          /\ ov_status[i] = "overlaid"
          /\ \E d \in DatesCovered(ForecastsOf(i)) :
                /\ Cardinality(RowsOn(pre, LocationOf(i), d)) >= 2
                /\ RowsOn(pre, LocationOf(i), d) \cap RowsOn(committed, LocationOf(i), d) = {}

\* every location has its sun_times row and its 24 hourly rows for every day
\* of the horizon
FullHorizon(store) ==
    \A day \in today..(today + PRECALC_DAYS), i \in 1..Len(LOCATIONS) :
        /\ \E r \in store.sun_times : r.location = LOCATIONS[i] /\ r.date = day
        /\ Cardinality({r \in store.hourly_levels :
                           r.location = LOCATIONS[i] /\ DateOf(r.datetime_utc) = day}) = 24

\* C3: from the clearing of the three tables until build_cache commits, and
\* after it aborted in between, the store holds exactly the rows of the
\* previous cache generation; what a reader finds committed is the previous
\* generation or a fully rebuilt horizon, never a part of one.
C3_AbortKeepsPreviousGeneration ==
    /\ pc \in {"build", "build_raised"} => committed = prev_gen
    /\ pc # "off" => (committed = prev_gen \/ FullHorizon(committed))

\* C3 witness: build_cache aborted after it had cleared the tables of a
\* non-empty previous generation and written at least one (day, location)
C3_Witness ==
    /\ pc = "build_raised"
    /\ prev_gen # EmptyStore
    /\ (current > today \/ loc_idx > 1)
    /\ committed = prev_gen

\* C4 as stated: whatever fails in the overlay pass (a fetch, a parse, a
\* delete, an insert, the commit), scrape_and_overlay returns normally and no
\* harmonic prediction committed by the build is deleted without the full
\* authoritative replacement for its date being stored.
C4_OverlayFailureLeavesHarmonicRows ==
    pc \in {"done", "overlay_raised"} =>
        /\ pc = "done"
        /\ \A r \in pre.predictions :
              \/ r \in committed.predictions
              \/ \E i \in 1..Len(SCRAPE_SLUGS) :
                    /\ LocationOf(i) = r.location
                    /\ ov_status[i] \in {"overlaid", "delete_raised", "insert_raised"}
                    /\ DateOf(r.datetime_utc) \in DatesCovered(ForecastsOf(i))
                    /\ RowsOn(committed, r.location, DateOf(r.datetime_utc))
                          = EntriesAsRows(r.location, ForecastsOf(i), DateOf(r.datetime_utc))

\* C5 as stated: in one run of scrape_and_overlay each distinct source
\* identifier is fetched at most once, whatever the outcome of the fetch.
C5_EachSlugFetchedOnce ==
    \A j, k \in 1..Len(net_log) :
        (j < k /\ net_log[j].ev = "fetch" /\ net_log[k].ev = "fetch")
            => net_log[j].slug # net_log[k].slug

\* C6 as stated: the politeness delay is applied between every two
\* consecutive fetches, also when the earlier fetch failed or parsed to
\* nothing, and only before a fetch.
C6_DelayBetweenFetches ==
    \A k \in 1..Len(net_log) :
        /\ (net_log[k].ev = "fetch" /\ \E j \in 1..(k - 1) : net_log[j].ev = "fetch")
              => net_log[k - 1].ev = "sleep"
        /\ net_log[k].ev = "sleep"
              => (k < Len(net_log) /\ net_log[k + 1].ev = "fetch")

\* the run applied find_extremes to a location of the dataset and got events
FoundExtremes ==
    /\ op = "find_extremes"
    /\ arg_loc \in DOMAIN data
    /\ ret.err = "none"

\* the offset record of the queried location
ArgOffsets == data[arg_loc].offsets

\* C8 as stated: every event find_extremes(location, D) returns, for a
\* reference or a subordinate location, has its returned datetime inside the
\* requested day, D 00:00 <= datetime < D+1 00:00.
C8_EventsInsideDay ==
    FoundExtremes =>
        \A e \in Range(ret.events) :
            arg_t * DayMin <= e.datetime /\ e.datetime < (arg_t + 1) * DayMin

\* C8 amended: every event find_extremes(location, D) returns has its datetime,
\* less the time offset of its type (time_hw_min for a high, time_lw_min for a
\* low, zero for a reference station), inside the requested day; for a
\* reference station that is the returned datetime itself.
C8_EventsInsideDayBeforeOffset ==
    FoundExtremes =>
        \A e \in Range(ret.events) :
            LET shift == IF ~ArgOffsets.present THEN 0
                         ELSE IF e.type = "high" THEN ArgOffsets.time_hw_min
                         ELSE ArgOffsets.time_lw_min
            IN  /\ arg_t * DayMin <= e.datetime - shift
                /\ e.datetime - shift < (arg_t + 1) * DayMin

\* C8 witness: a subordinate location's high water whose refined time is
\* inside the day and whose returned datetime is in the next day
C8_Witness ==
    /\ FoundExtremes
    /\ ArgOffsets.present
    /\ \E e \in Range(ret.events) :
          /\ e.type = "high"
          /\ e.datetime >= (arg_t + 1) * DayMin
          /\ e.datetime - ArgOffsets.time_hw_min < (arg_t + 1) * DayMin

\* C9: for a subordinate location find_extremes returns exactly the events it
\* returns for the reference station on the same day, every high shifted by
\* (time_hw_min, height_hw_m) and every low by (time_lw_min, height_lw_m); for
\* a reference station no shift is applied: each event carries the height
\* sampled at the grid point next to its time.
C9_SubordinateIsShiftedReference ==
    FoundExtremes =>
        IF ArgOffsets.present
        THEN LET ref == find_extremes(data, "newquay", arg_t).events
                 shifted ==
                    {[datetime |-> e.datetime + (IF e.type = "high"
                                                 THEN ArgOffsets.time_hw_min
                                                 ELSE ArgOffsets.time_lw_min),
                      height |-> e.height + (IF e.type = "high"
                                             THEN ArgOffsets.height_hw_m
                                             ELSE ArgOffsets.height_lw_m),
                      type |-> e.type] : e \in Range(ref)}
             IN  /\ Range(ret.events) = shifted
                 /\ Len(ret.events) = Len(ref)
        ELSE \A e \in Range(ret.events) :
                \E i \in 0..(GridLen(arg_t) - 1) :
                    /\ Abs(GridTime(arg_t, i) - e.datetime) <= StepMin \div 2
                    /\ e.height = Synth(data, arg_loc, GridTime(arg_t, i))

\* C9 witness: a subordinate location whose two time offsets differ got both
\* a high and a low
C9_Witness ==
    /\ FoundExtremes
    /\ ArgOffsets.present
    /\ ArgOffsets.time_hw_min # ArgOffsets.time_lw_min
    /\ ArgOffsets.height_hw_m # ArgOffsets.height_lw_m
    /\ \E e1, e2 \in Range(ret.events) : e1.type = "high" /\ e2.type = "low"

\* C10: for a subordinate location height_at returns the reference station's
\* synthesized height at the instant plus the average of height_hw_m and
\* height_lw_m, whatever the location's own constituents and mean level are;
\* for a reference station it returns the synthesized height unadjusted.
C10_HeightAtAveragesOffsets ==
    (op = "height_at" /\ arg_loc \in DOMAIN data) =>
        /\ ret.err = "none"
        /\ IF ArgOffsets.present
           THEN 2 * ret.val = 2 * (data["newquay"].mean_level
                                   + FromAmplitudePhase(data["newquay"].constituents, arg_t))
                              + ArgOffsets.height_hw_m + ArgOffsets.height_lw_m
           ELSE ret.val = data[arg_loc].mean_level
                          + FromAmplitudePhase(data[arg_loc].constituents, arg_t)

\* C10 witness: a point height of a subordinate location whose offsets do not
\* average to zero and whose own curve differs from the reference's there
C10_Witness ==
    /\ op = "height_at"
    /\ arg_loc \in DOMAIN data
    /\ ArgOffsets.present
    /\ ArgOffsets.height_hw_m + ArgOffsets.height_lw_m # 0
    /\ ArgOffsets.height_hw_m # ArgOffsets.height_lw_m
    /\ Synth(data, arg_loc, arg_t) # Synth(data, "newquay", arg_t)
    /\ ret.err = "none"

\* a forecast entry with every field present, a timestamp one of the formats
\* matches and a numeric height
WellFormed(f) ==
    /\ f.is_object
    /\ f.forecast_at.kind = "time"
    /\ f.tide_height.kind = "number"
    /\ f.tide_type # ""

\* what a well-formed entry is returned as
Converted(f) ==
    [datetime_utc |-> IF f.forecast_at.t >= BstStartDay * DayMin + 120
                      THEN f.forecast_at.t - 60 ELSE f.forecast_at.t,
     type |-> IF f.tide_type = "HW" THEN "high" ELSE "low",
     height |-> f.tide_height.v]

RECURSIVE ConvertedWellFormed(_)
ConvertedWellFormed(fs) ==
    IF fs = <<>> THEN <<>>
    ELSE IF WellFormed(Head(fs)) THEN <<Converted(Head(fs))>> \o ConvertedWellFormed(Tail(fs))
    ELSE ConvertedWellFormed(Tail(fs))

\* C7: a malformed forecast entry (missing field, unparseable timestamp,
\* non-numeric height, or an entry that is not an object) causes only that
\* entry to be skipped: _parse_forecasts returns, in order, every well-formed
\* entry of the document.
C7_MalformedEntrySkippedAlone ==
    (parsed.err # "unset" /\ html.found /\ html.json_ok /\ html.has_forecasts) =>
        /\ parsed.err = "none"
        /\ parsed.val = ConvertedWellFormed(html.forecasts)

----------------------------------------------------------------------------
(* The scan of find_extremes, restated for the queried location *)

\* the station whose constituents the grid of the queried location is
\* synthesized from
ArgBase == IF ArgOffsets.present THEN "newquay" ELSE arg_loc

\* heights[i] of the grid of day
SampledOn(day, i) == Synth(data, ArgBase, GridTime(day, i))

\* heights[i] of the grid of the requested day
Sampled(i) == SampledOn(arg_t, i)

\* the type of the strict three-point extremum at grid index i of day, if any
StrictTypeOn(day, i) ==
    IF SampledOn(day, i) > SampledOn(day, i - 1) /\ SampledOn(day, i) > SampledOn(day, i + 1)
    THEN "high"
    ELSE IF SampledOn(day, i) < SampledOn(day, i - 1)
            /\ SampledOn(day, i) < SampledOn(day, i + 1)
    THEN "low"
    ELSE "none"

StrictType(i) == StrictTypeOn(arg_t, i)

\* the offsets of the queried location for an event of a type
ArgTimeShift(type) ==
    IF ~ArgOffsets.present THEN 0
    ELSE IF type = "high" THEN ArgOffsets.time_hw_min ELSE ArgOffsets.time_lw_min

ArgHeightShift(type) ==
    IF ~ArgOffsets.present THEN 0
    ELSE IF type = "high" THEN ArgOffsets.height_hw_m ELSE ArgOffsets.height_lw_m

\* twice the second difference of the samples around grid index i of day: the
\* parabola through them has curvature a = Curv2 / (4 * StepMin^2)
Curv2On(day, i) == 2 * (SampledOn(day, i - 1) - 2 * SampledOn(day, i) + SampledOn(day, i + 1))

\* is t the vertex time of the parabola through the samples around grid index
\* i of day, to the nearest minute: the vertex lies at
\* times[i] + StepMin * (h0 - h2) / Curv2
IsVertexTimeOn(day, i, t) ==
    2 * Abs((t - GridTime(day, i)) * Curv2On(day, i)
            - StepMin * (SampledOn(day, i - 1) - SampledOn(day, i + 1)))
        <= Abs(Curv2On(day, i))

\* abs(a) < 1e-10
NegligibleOn(day, i) ==
    Abs(Curv2On(day, i)) * NegligibleDen < NegligibleNum * 4 * StepMin * StepMin

\* the time _refine_extreme is to hand back for grid index i of day
IsRefinedTimeOn(day, i, t) ==
    IF NegligibleOn(day, i) THEN t = GridTime(day, i) ELSE IsVertexTimeOn(day, i, t)

UnknownLocationIsKeyError ==
    (op # "none" /\ arg_loc \notin DOMAIN data) => ret.err = "KeyError"

\* C12 as stated: an engine operation on a location absent from the dataset
\* ends in a not-found error, and when build_cache meets such a location in
\* LOCATIONS the batch does not abort: the build goes on with the remaining
\* locations and days.
C12_UnknownLocationDoesNotAbortBatch ==
    /\ []UnknownLocationIsKeyError
    /\ [][(BuildStep /\ LOCATIONS[loc_idx] \notin DOMAIN data) => pc' = "build"]_vars

\* the grid indices find_extremes tests
Inner == 1..(GridLen(arg_t) - 2)

\* every sample of the grid of the requested day is the same
FlatGrid == \A i \in 0..(GridLen(arg_t) - 1) : Sampled(i) = Sampled(0)

\* C13: find_extremes reports a grid point as a high only if its sample is
\* strictly greater than both neighbours and as a low only if strictly less
\* than both: every event sits within half a step of such a grid point of its
\* type and there are no more events than such grid points, so a grid point
\* equal to a neighbour yields none; on a flat curve the list is empty and no
\* error is raised.
C13_StrictExtremesOnly ==
    (op = "find_extremes" /\ arg_loc \in DOMAIN data) =>
        /\ \A e \in Range(ret.events) :
              \E i \in Inner :
                  /\ StrictType(i) = e.type
                  /\ 2 * Abs(e.datetime - ArgTimeShift(e.type) - GridTime(arg_t, i)) <= StepMin
        /\ Len(ret.events) <= Cardinality({i \in Inner : StrictType(i) # "none"})
        /\ FlatGrid => ret = [err |-> "none", events |-> <<>>]

\* C13 witness: the curve is not flat and tops out, inside the requested day,
\* on two equal samples above their outer neighbours; no event is reported
\* within a step of them
C13_Witness ==
    /\ FoundExtremes
    /\ ~FlatGrid
    /\ \E i \in Inner :
          /\ i + 2 <= GridLen(arg_t) - 1
          /\ InDay(arg_t, GridTime(arg_t, i))
          /\ Sampled(i) = Sampled(i + 1)
          /\ Sampled(i - 1) < Sampled(i)
          /\ Sampled(i + 2) < Sampled(i)
          /\ \A e \in Range(ret.events) :
                Abs(e.datetime - ArgTimeShift(e.type) - GridTime(arg_t, i)) > StepMin

\* a flat curve was scanned
FlatScanned == op = "find_extremes" /\ arg_loc \in DOMAIN data /\ FlatGrid

----------------------------------------------------------------------------
(* The build, restated *)

\* the days the loop of build_cache visits
BuildDays == today..(today + PRECALC_DAYS)

\* the store the build has written so far: its open transaction, or what it
\* committed
BuildStore == IF pc = "build" THEN conn.view ELSE committed

\* the build is writing, or has just committed what the loop wrote
BuildWritten == pc \in {"build", "built"}

\* the loop has completed the body for (day, LOCATIONS[i])
Processed(day, i) ==
    \/ pc = "built"
    \/ day < current
    \/ (day = current /\ i < loc_idx)

HourlyRowsOn(store, location, day) ==
    {r \in store.hourly_levels : r.location = location /\ DateOf(r.datetime_utc) = day}

\* C14: hourly_heights returns 25 samples, at hours 0 through 24 of the
\* requested day, and build_cache stores for a (location, day) the samples
\* dated that day and no other: once the loop has done (location, day) the
\* store holds its 24 rows of hours 0 to 23, and until then it holds no row of
\* that location dated that day, so no instant is written twice and the
\* hour-24 sample is not written under the day it was computed for.
C14_HourlyWrittenOnceUnderOwnDay ==
    BuildWritten =>
        /\ \A r \in BuildStore.hourly_levels : DateOf(r.datetime_utc) \in BuildDays
        /\ \A day \in BuildDays, i \in 1..Len(LOCATIONS) :
              LET location == LOCATIONS[i]
                  hourly == hourly_heights(data, location, day).val
              IN  (location \in DOMAIN data) =>
                    /\ Len(hourly) = 25
                    /\ \A k \in 1..Len(hourly) : hourly[k][1] = day * DayMin + (k - 1) * 60
                    /\ HourlyRowsOn(BuildStore, location, day) =
                          IF Processed(day, i)
                          THEN {[location |-> location,
                                 datetime_utc |-> hourly[k][1],
                                 height_metres |-> Round2(hourly[k][2])] : k \in 1..24}
                          ELSE {}

\* C14 witness: the build is committed; midnight of the second day is stored
\* once, as hour 0 of the second day, with the 24 rows of each day, and hour
\* 24 of the last day is not stored
C14_Witness ==
    /\ pc = "built"
    /\ PRECALC_DAYS >= 1
    /\ Cardinality({r \in committed.hourly_levels :
                      r.location = "polzeath" /\ r.datetime_utc = (today + 1) * DayMin}) = 1
    /\ Cardinality(HourlyRowsOn(committed, "polzeath", today)) = 24
    /\ \A r \in committed.hourly_levels :
          r.datetime_utc # (today + PRECALC_DAYS + 1) * DayMin

\* what the overlay pass, no store operation raising, is to leave of a
\* harmonic generation: for an overlaid location the harmonic rows of the
\* dates its entries do not cover and the entries as rows, for any other
\* location its harmonic rows
OverlaidGeneration(gen) ==
    [gen EXCEPT !.predictions =
        UNION {IF ov_status[i] = "overlaid"
               THEN {r \in LocRows(gen, LocationOf(i)) :
                        DateOf(r.datetime_utc) \notin DatesCovered(ForecastsOf(i))}
                    \cup UNION {EntriesAsRows(LocationOf(i), ForecastsOf(i), d) :
                                   d \in DatesCovered(ForecastsOf(i))}
               ELSE LocRows(gen, LocationOf(i)) : i \in 1..Len(SCRAPE_SLUGS)}]

C16_SortedByAdjustedDatetime ==
    FoundExtremes =>
        \A j, k \in 1..Len(ret.events) :
            j < k => ret.events[j].datetime <= ret.events[k].datetime

\* C16 witness: a subordinate location whose time offsets differ got two
\* events whose order in the list is the reverse of the order of their
\* refined times
C16_Witness ==
    /\ FoundExtremes
    /\ ArgOffsets.present
    /\ ArgOffsets.time_hw_min # ArgOffsets.time_lw_min
    /\ \E j, k \in 1..Len(ret.events) :
          /\ j < k
          /\ ret.events[j].datetime < ret.events[k].datetime
          /\ ret.events[j].datetime - ArgTimeShift(ret.events[j].type)
                > ret.events[k].datetime - ArgTimeShift(ret.events[k].type)

\* C17 as stated: for each location the overlay replacement is atomic: once
\* scrape_and_overlay is over, the location's committed predictions are
\* exactly those of before the pass or hold, on every covered date, exactly
\* the parsed authoritative entries; harmonic rows deleted with the entries of
\* their date missing or incomplete are never committed.
C17_OverlayReplacementAtomic ==
    pc \in {"done", "overlay_raised"} =>
        \A i \in 1..Len(ov_status) :
            \/ LocRows(committed, LocationOf(i)) = LocRows(pre, LocationOf(i))
            \/ /\ SCRAPE_SLUGS[i].slug \in DOMAIN slug_cache
               /\ \A d \in DatesCovered(ForecastsOf(i)) :
                     RowsOn(committed, LocationOf(i), d)
                         = EntriesAsRows(LocationOf(i), ForecastsOf(i), d)

\* the last index of the lists of the grid
LastIdx == CHOOSE i \in DOMAIN grid.times : \A j \in DOMAIN grid.times : j <= i

\* the grid is uniform: it starts an hour before the requested day and goes
\* on in steps of six minutes
GridFromHourBefore ==
    /\ 0 \in DOMAIN grid.times
    /\ grid.times[0] = arg_t * DayMin - 60
    /\ \A i \in DOMAIN grid.times : i > 0 => grid.times[i] = grid.times[i - 1] + 6

\* every sample is the reference station's curve at its grid time: that of
\* "newquay" for a location with offsets, the location's own otherwise
SamplesFromReference ==
    /\ DOMAIN grid.heights = DOMAIN grid.times
    /\ \A i \in DOMAIN grid.times :
          grid.heights[i] =
              data[ArgBase].mean_level
              + FromAmplitudePhase(data[ArgBase].constituents, grid.times[i])

\* C18 as stated: the sample grid of find_extremes for day D runs from D
\* minus 1 hour to D plus 26 hours inclusive in 6-minute steps, every point
\* synthesized from the reference station's constituents.
C18_GridToDayPlus26h ==
    FoundExtremes =>
        /\ GridFromHourBefore
        /\ grid.times[LastIdx] = arg_t * DayMin + 26 * 60
        /\ SamplesFromReference

\* C18 amended: the grid runs from D minus 1 hour for 26 hours, that is to D
\* plus 25 hours inclusive, in 6-minute steps (261 points), every point
\* synthesized from the reference station's constituents.
C18_GridToDayPlus25h ==
    FoundExtremes =>
        /\ GridFromHourBefore
        /\ grid.times[LastIdx] = arg_t * DayMin + 25 * 60
        /\ Cardinality(DOMAIN grid.times) = 261
        /\ SamplesFromReference

\* C18 witness: the grid of a subordinate location, whose own curve differs
\* from the reference's at the last grid point, D plus 25 hours
C18_Witness ==
    /\ FoundExtremes
    /\ ArgOffsets.present
    /\ grid.times[LastIdx] = arg_t * DayMin + 25 * 60
    /\ grid.heights[LastIdx] # Synth(data, arg_loc, grid.times[LastIdx])

\* the reference curve at an instant, and the strict three-point test at the
\* six-minute grid time g
SampleAt(g) == Synth(data, ArgBase, g)

StrictAt(g) ==
    IF SampleAt(g) > SampleAt(g - 6) /\ SampleAt(g) > SampleAt(g + 6) THEN "high"
    ELSE IF SampleAt(g) < SampleAt(g - 6) /\ SampleAt(g) < SampleAt(g + 6) THEN "low"
    ELSE "none"

\* how many events of a list report the extremum at grid time g: its type,
\* its sample as height and a refined time within half a step of g, the
\* offsets of the queried location taken off
ReportsOf(events, g) ==
    Cardinality({k \in 1..Len(events) :
                    /\ events[k].type = StrictAt(g)
                    /\ events[k].height - ArgHeightShift(events[k].type) = SampleAt(g)
                    /\ 2 * Abs(events[k].datetime - ArgTimeShift(events[k].type) - g) <= 6})

\* the refined time of every event of a list lies in the day
RefinedInside(events, day) ==
    \A k \in 1..Len(events) :
        /\ day * DayMin <= events[k].datetime - ArgTimeShift(events[k].type)
        /\ events[k].datetime - ArgTimeShift(events[k].type) < (day + 1) * DayMin

\* the six-minute grid times of days D and D+1 whose refined time, within
\* half a step of them, is sure to lie in the two days, and those at most
\* half a step outside
GridTimesWithin(day) ==
    {g \in (day * DayMin + 3)..((day + 2) * DayMin - 4) : g % 6 = 0}

GridTimesAround(day) ==
    {g \in (day * DayMin - 3)..((day + 2) * DayMin + 3) : g % 6 = 0}

\* C19: find_extremes(loc, D) keeps the candidates whose refined time, before
\* any subordinate offset, lies in [D 00:00, D+1 00:00); over the consecutive
\* days D and D+1 every strict extremum of the sampled reference curve whose
\* refined time lies in the two days is reported by exactly one of
\* find_extremes(loc, D) and find_extremes(loc, D+1), and none by both.
C19_DaysPartitionExtremes ==
    FoundExtremes =>
        LET next == find_extremes(data, arg_loc, arg_t + 1).events
        IN  /\ RefinedInside(ret.events, arg_t)
            /\ RefinedInside(next, arg_t + 1)
            /\ \A g \in GridTimesAround(arg_t) :
                  StrictAt(g) # "none" =>
                      /\ ReportsOf(ret.events, g) + ReportsOf(next, g) <= 1
                      /\ g \in GridTimesWithin(arg_t) =>
                            ReportsOf(ret.events, g) + ReportsOf(next, g) = 1

\* C19 witness: a strict extremum on the grid point at midnight between the
\* two days, whose refined time is before midnight: the first day reports it
\* and the second does not
C19_Witness ==
    /\ FoundExtremes
    /\ StrictAt((arg_t + 1) * DayMin) # "none"
    /\ ReportsOf(ret.events, (arg_t + 1) * DayMin) = 1
    /\ ReportsOf(find_extremes(data, arg_loc, arg_t + 1).events, (arg_t + 1) * DayMin) = 0
    /\ \E k \in 1..Len(ret.events) :
          /\ 2 * Abs(ret.events[k].datetime - ArgTimeShift(ret.events[k].type)
                     - (arg_t + 1) * DayMin) <= 6
          /\ ret.events[k].datetime - ArgTimeShift(ret.events[k].type) < (arg_t + 1) * DayMin

\* the dataset with its "newquay" entry taken out, or, if it has none, with
\* one put in
NewquayToggled ==
    IF "newquay" \in DOMAIN data THEN Without(data, "newquay")
    ELSE [l \in DOMAIN data \cup {"newquay"} |->
             IF l = "newquay" THEN TwoReferences(0)["newquay"] ELSE data[l]]

\* C20 as stated: the lookup of the base location inside _refine_extreme has
\* no effect on the result: for a reference location other than "newquay",
\* find_extremes raises no error and returns the same events whether or not
\* the dataset has an entry named "newquay".
C20_RefineLookupHasNoEffect ==
    (op = "find_extremes" /\ arg_loc \in DOMAIN data /\ arg_loc # "newquay"
       /\ ~ArgOffsets.present) =>
        /\ ret.err = "none"
        /\ ret = find_extremes(NewquayToggled, arg_loc, arg_t)

\* the sun_times rows of a store are one per location of LOCATIONS and day of
\* days, and no other
SunRowsExactlyOn(store, days) ==
    /\ \A i \in 1..Len(LOCATIONS), day \in days :
          Cardinality({r \in store.sun_times :
                          r.location = LOCATIONS[i] /\ r.date = day}) = 1
    /\ \A r \in store.sun_times :
          r.date \in days /\ \E i \in 1..Len(LOCATIONS) : r.location = LOCATIONS[i]

\* C21 as stated: a completed build_cache run has wiped the three tables and
\* written results for exactly PRECALC_DAYS consecutive days starting today,
\* for every configured location: sun_times holds exactly one row per
\* (location, day) for the days today through today + PRECALC_DAYS - 1 and no
\* row for any other day.
C21_ExactlyPrecalcDays ==
    pc = "built" => SunRowsExactlyOn(committed, today..(today + PRECALC_DAYS - 1))

\* what the loop writes: one row per (location, day) for the days today
\* through today + PRECALC_DAYS, one day more than PRECALC_DAYS
SunRowsOnLoopDays ==
    pc = "built" => SunRowsExactlyOn(committed, today..(today + PRECALC_DAYS))

\* the overlay pass is running or over
InOverlay == pc \in {"overlay", "overlay_finally", "done", "overlay_raised"}

\* the i-th iteration of the overlay loop executed a statement on the store
WroteStore(i) == ov_status[i] \in {"overlaid", "delete_raised", "insert_raised"}

\* C22: scrape_and_overlay changes nothing outside the overlaid part of
\* predictions: hourly_levels and sun_times are as before the pass, and a
\* predictions row is added or removed only if it belongs to a location whose
\* iteration wrote to the store and its UTC date is among the dates covered by
\* the entries parsed for that location; rows of locations without a source
\* identifier and rows of other dates are as before the pass.
C22_OverlayFrame ==
    InOverlay =>
        /\ OverlayStore.hourly_levels = pre.hourly_levels
        /\ OverlayStore.sun_times = pre.sun_times
        /\ \A r \in pre.predictions \cup OverlayStore.predictions :
              (r \in pre.predictions /\ r \in OverlayStore.predictions)
              \/ \E i \in 1..Len(ov_status) :
                    /\ LocationOf(i) = r.location
                    /\ WroteStore(i)
                    /\ DateOf(r.datetime_utc) \in DatesCovered(ForecastsOf(i))

\* C22 witness: the pass is committed; an overlaid location lost harmonic
\* rows of a covered date and kept those of a date its entries do not cover,
\* and the two other tables hold rows
C22_Witness ==
    /\ pc = "done"
    /\ pre.hourly_levels # {}
    /\ pre.sun_times # {}
    /\ \E i \in 1..Len(ov_status) :
          /\ ov_status[i] = "overlaid"
          /\ \E r \in LocRows(pre, LocationOf(i)) :
                /\ DateOf(r.datetime_utc) \in DatesCovered(ForecastsOf(i))
                /\ r \notin committed.predictions
          /\ \E r \in LocRows(pre, LocationOf(i)) :
                /\ DateOf(r.datetime_utc) \notin DatesCovered(ForecastsOf(i))
                /\ r \in committed.predictions

\* find_extremes returned the events of a reference station
FoundReferenceExtremes == FoundExtremes /\ ~ArgOffsets.present

\* between the k-th event and the next the grid has two equal adjacent
\* samples: an extremum the strict test does not see
PlateauBetween(k) ==
    \E i \in Inner :
        /\ ret.events[k].datetime < GridTime(arg_t, i)
        /\ GridTime(arg_t, i + 1) < ret.events[k + 1].datetime
        /\ Sampled(i) = Sampled(i + 1)

\* C23 as stated: in the list find_extremes returns for a reference station
\* the event types alternate in time order: no two consecutive events are
\* both high or both low.
C23_TypesAlternate ==
    FoundReferenceExtremes =>
        \A k \in 1..(Len(ret.events) - 1) :
            ret.events[k].type # ret.events[k + 1].type

\* C23 amended: in the list find_extremes returns for a reference station two
\* consecutive events are of the same type only if the sampled curve has two
\* equal adjacent samples between them (a plateau, which yields no event);
\* otherwise the types alternate.
C23_TypesAlternateUnlessPlateau ==
    FoundReferenceExtremes =>
        \A k \in 1..(Len(ret.events) - 1) :
            ret.events[k].type = ret.events[k + 1].type => PlateauBetween(k)

\* C23 witness: a reference station's list with a high, a low and a high in a
\* row, and with two highs in a row around a low water on two equal samples
C23_Witness ==
    /\ FoundReferenceExtremes
    /\ \E k \in 1..(Len(ret.events) - 1) :
          /\ ret.events[k].type = "high"
          /\ ret.events[k + 1].type = "high"
          /\ PlateauBetween(k)
    /\ \E k \in 1..(Len(ret.events) - 1) :
          ret.events[k].type # ret.events[k + 1].type

====
